---- MODULE Spec2Model ----
(***************************************************************************)
(* A model of the SFTP transfer agent of achgateway                        *)
(* (internal/upload: SFTPTransferAgent, sftpConnect, connection, Ping,     *)
(* Close, Delete, UploadFile, readFiles).                                  *)
(*                                                                         *)
(* One agent value is built by newSFTPTransferAgent and then used by       *)
(* several goroutines (Callers).  Every method is split at the points      *)
(* where another goroutine can interleave: the mutex, the liveness probe,  *)
(* the dial, the creation of the SFTP client and each remote call.         *)
(* The remote host is the environment: every remote call may fail.         *)
(*                                                                         *)
(* Beside the agent: populateHashes, processDir and processFile            *)
(* (internal/incoming/odfi), service.FTP.String() and sendEmail            *)
(* (internal/notify), each with a specification of its own.                *)
(***************************************************************************)
EXTENDS Integers, Sequences, FiniteSets, TLC

(***************************************************************************)
(* Bounds of the model.                                                    *)
(***************************************************************************)
NCallers == 2        \* goroutines sharing the agent
MaxCalls == 2        \* method calls one goroutine starts in one run
MaxConcCalls == 2    \* method calls the goroutines sharing the agent start in one run
MaxSessions == 2     \* SSH transports the remote host accepts in one run
MaxRetries == 2      \* value of the retry counter at which the host stops refusing
MaxEntries == 2      \* entries of a directory read by Get*Files
MaxBatches == 2      \* batches of a parsed file
MaxBatchEntries == 2 \* entries of a batch
NProcessors == 2     \* processors of the chain
MaxPassword == 4     \* characters of a password
MaxCfgRetries == 4   \* largest cfg.MaxRetries of an email configuration

(***************************************************************************)
(* Program constants.                                                      *)
(***************************************************************************)
DialAttempts == 3    \* for i := 0; i < 3; i++
DefaultMailRetries == 3 \* maxRetries := 3

Callers == 1..NCallers
SessionIds == 1..MaxSessions

(***************************************************************************)
(* Paths.  A path is a sequence of one-character strings.                  *)
(***************************************************************************)
Sep == "/"

\* strings.Join(parts, "/")
RECURSIVE JoinParts(_)
JoinParts(parts) ==
    IF parts = <<>> THEN <<>>
    ELSE IF Len(parts) = 1 THEN parts[1]
    ELSE parts[1] \o <<Sep>> \o JoinParts(Tail(parts))

\* The elements of a path between its separators (empty ones included).
RECURSIVE SplitPath(_, _, _)
SplitPath(path, cur, acc) ==
    IF path = <<>> THEN Append(acc, cur)
    ELSE IF Head(path) = Sep THEN SplitPath(Tail(path), <<>>, Append(acc, cur))
    ELSE SplitPath(Tail(path), Append(cur, Head(path)), acc)

Dot == <<".">>
DotDot == <<".", ".">>

\* filepath.Clean's treatment of the elements: "" and "." are dropped, ".."
\* removes the element before it, is dropped at the root and is kept at the
\* start of a relative path.
RECURSIVE CleanParts(_, _, _)
CleanParts(parts, rooted, out) ==
    IF parts = <<>> THEN out
    ELSE LET e == Head(parts)
             rest == Tail(parts)
         IN  IF e = <<>> \/ e = Dot THEN CleanParts(rest, rooted, out)
             ELSE IF e = DotDot
                  THEN IF out # <<>> /\ out[Len(out)] # DotDot
                       THEN CleanParts(rest, rooted, SubSeq(out, 1, Len(out) - 1))
                       ELSE IF rooted THEN CleanParts(rest, rooted, out)
                       ELSE CleanParts(rest, rooted, Append(out, e))
                  ELSE CleanParts(rest, rooted, Append(out, e))

\* filepath.Clean (Unix)
Clean(path) ==
    IF path = <<>> THEN Dot
    ELSE LET rooted == Head(path) = Sep
             body == JoinParts(CleanParts(SplitPath(path, <<>>, <<>>), rooted, <<>>))
         IN  IF rooted THEN <<Sep>> \o body
             ELSE IF body = <<>> THEN Dot ELSE body

\* filepath.Base: strip the trailing slashes
RECURSIVE StripTrailingSep(_)
StripTrailingSep(path) ==
    IF path # <<>> /\ path[Len(path)] = Sep
    THEN StripTrailingSep(SubSeq(path, 1, Len(path) - 1))
    ELSE path

\* filepath.Base: the text after the last separator
RECURSIVE LastElement(_)
LastElement(path) ==
    IF path = <<>> THEN <<>>
    ELSE IF path[Len(path)] = Sep THEN <<>>
    ELSE Append(LastElement(SubSeq(path, 1, Len(path) - 1)), path[Len(path)])

\* filepath.Base (Unix)
Base(path) ==
    IF path = <<>> THEN Dot
    ELSE LET stripped == StripTrailingSep(path)
             last == LastElement(stripped)
         IN  IF stripped = <<>> THEN <<Sep>>
             ELSE last

\* filepath.Join of two elements: empty elements are ignored, the rest is
\* joined by the separator and cleaned.
Join(a, b) ==
    IF a = <<>> /\ b = <<>> THEN <<>>
    ELSE IF a = <<>> THEN Clean(b)
    ELSE IF b = <<>> THEN Clean(a)
    ELSE Clean(a \o <<Sep>> \o b)

\* pathToWrite := filepath.Join(agent.cfg.Paths.Outbound, filepath.Base(f.Filename))
PathToWrite(outbound, filename) == Join(outbound, Base(filename))

\* filepath.Dir of a cleaned path: what stands before its last element
Dir(path) ==
    LET parts == SplitPath(path, <<>>, <<>>)
        rooted == path # <<>> /\ Head(path) = Sep
        front == JoinParts(SubSeq(parts, 1, Len(parts) - 1))
    IN  IF rooted THEN Clean(<<Sep>> \o front) ELSE Clean(front)

(***************************************************************************)
(* The configuration and the inputs of the calls.                          *)
(***************************************************************************)
Outbound == <<"/", "o">>                    \* cfg.Paths.Outbound
Root == <<Sep>>
Filenames == { <<"a">>, <<".", ".", "/", "a">>, <<".", ".">>, <<".">>, <<>> }
DeletePaths == { <<"/", "o", "/", "a">>, <<"/", "m">> }
\* Which of cfg.SFTP.Password and cfg.SFTP.ClientPrivateKey are non-empty:
\* "both" is both, "badkey" a private key that readSigner cannot parse.
AuthModes == {"password", "key", "badkey", "both", "none"}
\* cfg.SFTP.HostPublicKey: empty, a key, or text sshx.ReadPubKey cannot parse.
HostKeys == {"none", "good", "bad"}

AllConfigs == [ sftp : BOOLEAN,             \* cfg != nil && cfg.SFTP != nil
                allowed : BOOLEAN,          \* rejectOutboundIPRange accepts the hostname
                auth : AuthModes,
                hostKey : HostKeys,
                skipMkdir : BOOLEAN ]       \* cfg.SFTP.SkipDirectoryCreation

\* The configurations of the agent whose method calls are followed.
Configs == { c \in AllConfigs : c.auth \in {"password", "none"} /\ c.hostKey = "none" }

\* The configurations of the agents that are only constructed.
ConnectConfigs == { c \in AllConfigs : c.sftp /\ c.allowed /\ c.skipMkdir }

ReadDirs == {"Inbound", "Reconciliation", "Return"}   \* cfg.Paths of Get*Files

\* What the files hold: byte sequences.
Contents == { <<"x">>, << >> }
OneContent == { <<"x">> }

\* An entry of a remote directory read by Get*Files: a regular file with its
\* bytes, or a subdirectory (data is then the bytes of a file inside it).
File(name, data) == [name |-> name, isDir |-> FALSE, data |-> data]
SubDir(name, data) == [name |-> name, isDir |-> TRUE, data |-> data]
Entries == { File(n, d) : n \in {"f", "g"}, d \in Contents } \cup { SubDir("extra", <<"x">>) }

\* The directories Get*Files may meet: up to MaxEntries entries of distinct names.
DistinctNames(l) == \A i, j \in 1..Len(l) : l[i].name = l[j].name => i = j
Listings ==
    { l \in UNION { [1..n -> Entries] : n \in 0..MaxEntries } : DistinctNames(l) }

VARIABLES
    cfg,          \* the configuration newSFTPTransferAgent is called with
    built,        \* outcome of newSFTPTransferAgent
    client,       \* agent.client: 0 is nil, else the session the client runs on
    conn,         \* agent.conn: 0 is nil, else the SSH transport
    mu,           \* agent.mu: 0 is unlocked, else the caller holding it
    connOpen,     \* SSH transports dialled and not closed
    clientOpen,   \* SFTP clients created and not closed
    pendingClose, \* transports of a spawned `go conn.Close()` that has not run yet
    nSessions,    \* SSH transports dialled so far
    retries,      \* sftpConnectionRetries of the hostname
    gauge,        \* sftpAgentUp of the hostname: -1 is never written
    ctorConnect,  \* what the sftpConnect of the construction did
    warned,       \* times the warning of the insecure host key default was logged
    onceDone,     \* hostKeyCallbackOnce has run its function
    pc,           \* where each caller stands
    call,         \* each caller's current call: its inputs, locals and result
    calls,        \* method calls started so far
    dirs,         \* directories of the remote host
    files,        \* regular files of the remote host
    content,      \* the bytes of each of them
    listing,      \* the entries of the Inbound, Reconciliation and Return directories
    achFile,      \* the *ach.File that ach.ReadFile returned
    hashed,       \* populateHashes has run on it
    scan,         \* processDir: the staged directory, where the scan stands, what it did
    ftp,          \* a service.FTP configuration and what its String() gave
    mail          \* sendEmail: its configuration, its loop and what it returned

vars == << cfg, built, client, conn, mu, connOpen, clientOpen, pendingClose,
           nSessions, retries, gauge, ctorConnect, warned, onceDone, pc, call, calls,
           dirs, files, content, listing, achFile, hashed, scan, ftp, mail >>

agentVars == << client, conn, connOpen, clientOpen, pendingClose, nSessions >>
metricVars == << retries, gauge, ctorConnect, warned, onceDone >>
remoteVars == << dirs, files, content, listing >>
odfiVars == << achFile, hashed, scan >>

NoConnect == [res |-> "none", attempts |-> 0, added |-> 0, log |-> <<>>,
              callback |-> "none", logged |-> FALSE, offered |-> "none"]

\* No file uploaded by the call just before.
NoUpload == [name |-> <<>>, path |-> <<>>]

\* No Get*Files result is at hand.
NoRead == [dir |-> "none", out |-> <<>>]

EmptyCall == [ op |-> "none", arg |-> <<>>, probe |-> "none", connects |-> 0,
               connect |-> NoConnect,
               old |-> 0, sess |-> 0, held |-> 0, stat |-> "none",
               removed |-> FALSE, mkdir |-> FALSE, path |-> <<>>, fd |-> "none",
               fclosed |-> 0, res |-> "none", at |-> "none",
               infos |-> <<>>, idx |-> 0, out |-> <<>>, last |-> NoRead,
               data |-> <<>>, uploaded |-> NoUpload ]

(***************************************************************************)
(* sftpConnect                                                             *)
(***************************************************************************)
\* A dial loop without the `if client == nil` test: it dials three times.
RECURSIVE DialLoop_NoClientTest(_, _, _, _, _)
DialLoop_NoClientTest(i, haveClient, log, added, outcomes) ==
    IF i >= DialAttempts
    THEN [client |-> haveClient, log |-> log, added |-> added]
    ELSE DialLoop_NoClientTest(i + 1, outcomes[i + 1], Append(log, outcomes[i + 1]),
                               IF i > 0 THEN added + 1 ELSE added, outcomes)

\* The dial loop: for i := 0; i < 3; i++ { if client == nil { ... ssh.Dial } }.
\* outcomes[i+1] is what the dial of iteration i would return; log is the
\* sequence of the dials made, added the increments of the retry counter.
RECURSIVE DialLoop(_, _, _, _, _)
DialLoop(i, haveClient, log, added, outcomes) ==
    IF i >= DialAttempts
    THEN [client |-> haveClient, log |-> log, added |-> added]
    ELSE IF ~haveClient
         THEN DialLoop(i + 1, outcomes[i + 1], Append(log, outcomes[i + 1]),
                       IF i > 0 THEN added + 1 ELSE added, outcomes)
         ELSE DialLoop(i + 1, haveClient, log, added, outcomes)

\* A latch that runs its function at every call.
OnceDo_EveryTime(done) == TRUE

\* hostKeyCallbackOnce.Do(f) runs f when no Do of the process has run it yet.
OnceDo(done) == ~done

\* sftpConnect: the host key.  A configured key is parsed and pinned with
\* ssh.FixedHostKey; without one the latch logs the warning and any host key
\* is accepted.
HostKeyCheck(c) ==
    CASE c.hostKey = "bad" -> [res |-> "hostkey", callback |-> "none", logged |-> FALSE]
      [] c.hostKey = "good" -> [res |-> "ok", callback |-> "fixed", logged |-> FALSE]
      [] c.hostKey = "none" ->
            [res |-> "ok", callback |-> "insecure", logged |-> OnceDo(onceDone)]

\* sftpConnect: the switch over the credentials: the first case that applies
\* gives the one method of conf.Auth.
AuthCheck(c) ==
    CASE c.auth \in {"password", "both"} -> [res |-> "ok", offered |-> "password"]
      [] c.auth = "key" -> [res |-> "ok", offered |-> "publickey"]
      [] c.auth = "badkey" -> [res |-> "badkey", offered |-> "none"]
      [] c.auth = "none" -> [res |-> "noauth", offered |-> "none"]

\* sftpConnect up to the dial loop: the checks of the configuration.
ConnectConfig(c) ==
    IF ~c.sftp THEN [NoConnect EXCEPT !.res = "nilcfg"]
    ELSE LET h == HostKeyCheck(c)
             a == AuthCheck(c)
         IN  IF h.res # "ok" THEN [NoConnect EXCEPT !.res = h.res]
             ELSE [NoConnect EXCEPT !.res = a.res, !.callback = h.callback,
                                    !.logged = h.logged, !.offered = a.offered]

\* The errors sftpConnect returns before its dial loop.
Refused == {"nilcfg", "hostkey", "badkey", "noauth"}

\* sftpConnect from the dial loop on: the dials, then the session, the
\* subsystem request and the pipes (setupOK).
ConnectDial(k, outcomes, setupOK) ==
    LET d == DialLoop(0, FALSE, <<>>, 0, outcomes)
        base == [k EXCEPT !.attempts = Len(d.log), !.added = d.added, !.log = d.log]
    IN  IF ~d.client /\ ~d.log[Len(d.log)]
        THEN [base EXCEPT !.res = "dial"]
        ELSE IF ~setupOK THEN [base EXCEPT !.res = "setup"]
        ELSE [base EXCEPT !.res = "ok"]

\* sftpConnect(logger, cfg): the checks of the configuration, the dial loop,
\* then the session, the subsystem request and the pipes (setupOK).
SftpConnect(c, outcomes, setupOK) ==
    LET k == ConnectConfig(c)
    IN  IF k.res \in Refused THEN k ELSE ConnectDial(k, outcomes, setupOK)

\* The latch and the count of the warnings after an sftpConnect.
Warned(r) == IF r.logged THEN warned + 1 ELSE warned
OnceDone(r) == onceDone \/ r.callback = "insecure"

\* What the remote host may answer to the dials: it accepts no transport
\* beyond MaxSessions.
DialOutcomes ==
    IF nSessions < MaxSessions THEN [1..DialAttempts -> BOOLEAN]
    ELSE [1..DialAttempts -> {FALSE}]

\* The retry counter stays within MaxRetries.
WithinRetries(r) == retries + r.added <= MaxRetries

Dialled(r) == \E k \in 1..Len(r.log) : r.log[k]

(***************************************************************************)
(* newSFTPTransferAgent                                                    *)
(***************************************************************************)
InitAgent ==
    /\ built = "none"
    /\ client = 0 /\ conn = 0 /\ mu = 0
    /\ connOpen = {} /\ clientOpen = {} /\ pendingClose = {}
    /\ nSessions = 0 /\ retries = 0 /\ gauge = -1
    /\ warned = 0 /\ onceDone = FALSE
    /\ ctorConnect = NoConnect
    /\ pc = [p \in Callers |-> "idle"]
    /\ call = [p \in Callers |-> EmptyCall]
    /\ calls = 0
    /\ dirs \in {{Root}, {Root, Outbound}}
    /\ files = IF Outbound \in dirs THEN {<<"/", "o", "/", "a">>} ELSE {}
    /\ content = [f \in files |-> <<"x">>]

\* No identity: the ID of a batch or an entry that ach.ReadFile parsed.
NoID == << >>

\* The lines of the entries of a file.
EntryLines == { "entry1", "entry2" }

\* What ach.ReadFile returns: the batches it found with their entries, and
\* whether the file header passed validation (else ach.ErrFileHeader).
ParsedEntries == [line : EntryLines, id : {NoID}]
ParsedBatches ==
    [id : {NoID},
     entries : UNION { [1..n -> ParsedEntries] : n \in 1..MaxBatchEntries }]
ParsedFiles ==
    [headerValid : BOOLEAN,
     batches : UNION { [1..n -> ParsedBatches] : n \in 0..MaxBatches }]

\* No file is being ingested.
NoFile == [headerValid |-> TRUE, batches |-> << >>]

\* No directory is being scanned.
NoScan == [staged |-> << >>, stage |-> "idle", idx |-> 0, handled |-> << >>,
           errs |-> << >>, res |-> "none"]

\* No configuration is being printed.
NoFTP == [hostname |-> << >>, username |-> << >>, password |-> << >>,
          printed |-> FALSE, out |-> << >>]

\* A nil error; the other errors are the words of their text.
Nil == << >>

\* No email is being sent.
NoMail == [cfgMaxRetries |-> 0, stage |-> "idle", maxRetries |-> 0, tries |-> 0,
           outErr |-> Nil, sent |-> << >>, res |-> Nil]

\* Nothing but the agent is at work.
OdfiIdle == achFile = NoFile /\ hashed = FALSE /\ scan = NoScan /\ ftp = NoFTP /\ mail = NoMail

\* The directories the one goroutine of Spec reads.
DefaultListing ==
    [d \in ReadDirs |->
        CASE d = "Inbound" -> << File("f", <<"x">>) >>
          [] d = "Reconciliation" -> << >>
          [] d = "Return" -> << SubDir("extra", <<"x">>), File("g", << >>) >>]

Init == cfg \in Configs /\ InitAgent /\ listing = DefaultListing /\ OdfiIdle

\* A construction that does not check the hostname.
RejectOutboundIPRange_Skipped(c) == FALSE

\* rejectOutboundIPRange(cfg.SplitAllowedIPs(), cfg.SFTP.Hostname) returns an error
RejectOutboundIPRange(c) == ~c.allowed

\* agent.record(err)
Record(ok) == IF ok THEN 1 ELSE 0

\* The construction: the nil checks, the allowed-IP check, then connection()
\* on the fresh agent (no client yet, so no probe) and record(err).
NewAgent ==
    /\ built = "none"
    /\ IF ~cfg.sftp
       THEN /\ built' = "nilcfg"
            /\ UNCHANGED << agentVars, metricVars >>
       ELSE IF RejectOutboundIPRange(cfg)
       THEN /\ built' = "rejected"
            /\ UNCHANGED << agentVars, metricVars >>
       ELSE \E outcomes \in DialOutcomes, setupOK \in BOOLEAN, pipeOK \in BOOLEAN :
            LET r == SftpConnect(cfg, outcomes, setupOK)
                id == nSessions + 1
            IN  /\ WithinRetries(r)
                /\ ctorConnect' = r
                /\ retries' = retries + r.added
                /\ warned' = Warned(r) /\ onceDone' = OnceDone(r)
                /\ nSessions' = IF Dialled(r) THEN id ELSE nSessions
                /\ IF r.res = "ok"
                   THEN /\ conn' = id
                        /\ IF pipeOK
                           THEN /\ client' = id
                                /\ connOpen' = connOpen \cup {id}
                                /\ clientOpen' = clientOpen \cup {id}
                                /\ pendingClose' = pendingClose
                                /\ built' = "ok"
                           ELSE /\ client' = client
                                /\ connOpen' = connOpen \cup {id}
                                /\ clientOpen' = clientOpen
                                /\ pendingClose' = pendingClose \cup {id}
                                /\ built' = "error"
                   ELSE /\ conn' = conn /\ client' = client
                        /\ clientOpen' = clientOpen
                        /\ connOpen' = IF Dialled(r) THEN connOpen \cup {id} ELSE connOpen
                        /\ pendingClose' = IF Dialled(r) THEN pendingClose \cup {id}
                                           ELSE pendingClose
                        /\ built' = IF r.res = "dial" THEN "dialfailed" ELSE "error"
                /\ gauge' = Record(r.res = "ok" /\ pipeOK)
    /\ UNCHANGED << odfiVars, ftp, mail, cfg, mu, pc, call, calls, remoteVars >>

\* newSFTPTransferAgent returns `agent, err`: a non-nil agent in every case
\* but the nil configuration and the rejected hostname.
AgentReturned == built \in {"ok", "error", "dialfailed"}

\* The runtime runs a spawned `go conn.Close()`.
AsyncClose ==
    /\ \E id \in pendingClose :
        /\ pendingClose' = pendingClose \ {id}
        /\ connOpen' = connOpen \ {id}
    /\ UNCHANGED << odfiVars, ftp, mail, cfg, built, client, conn, mu, clientOpen, nSessions,
                    metricVars, pc, call, calls, remoteVars >>

(***************************************************************************)
(* The calls of the goroutines.                                            *)
(***************************************************************************)
LockedOps == {"Ping", "Delete", "Upload", "Read"}

\* A remote call through handle h can answer only while its SFTP client and
\* the transport under it are open.
RemoteUp(h) == h \in clientOpen /\ h \in connOpen

\* The first remote step of a method once connection() has returned a client.
FirstStep(c) ==
    CASE c.op = "Ping" -> "readdir"
      [] c.op = "Delete" -> "stat"
      [] c.op = "Upload" -> IF cfg.skipMkdir THEN "open" ELSE "ustat"
      [] c.op = "Read" -> "rdir"

\* Ping alone records the outcome of connection().
GaugeAfterConnection(c, ok) == IF c.op = "Ping" THEN Record(ok) ELSE gauge

Failed(c, where) == [c EXCEPT !.res = "err", !.at = where]
Succeeded(c) == [c EXCEPT !.res = "ok"]

\* newSFTPTransferAgent returned `nil, err`: the caller holds a nil agent.
NilAgent == built \in {"nilcfg", "rejected"}

\* A goroutine calls a method of the agent.  Close takes no lock and is the
\* one method that can be called on a nil agent.
Start(p, op, arg, data) ==
    /\ AgentReturned \/ (NilAgent /\ op = "Close")
    /\ pc[p] \in {"idle", "done"}
    /\ calls' = calls + 1
    /\ call' = [call EXCEPT ![p] =
                  [EmptyCall EXCEPT !.op = op, !.arg = arg, !.data = data,
                                    !.last = IF op = "Read" THEN call[p].last ELSE NoRead,
                                    !.uploaded = IF op = "Delete" THEN call[p].uploaded
                                                 ELSE NoUpload]]
    /\ pc' = [pc EXCEPT ![p] = IF op = "Close" THEN "close1" ELSE "lock"]
    /\ UNCHANGED << odfiVars, ftp, mail, cfg, built, mu, agentVars, metricVars, remoteVars >>

\* A Lock that does not wait for the holder of the mutex.
CanLock_NoWait(p) == TRUE

\* agent.mu.Lock()
CanLock(p) == mu = 0

Lock(p) ==
    /\ pc[p] = "lock"
    /\ CanLock(p)
    /\ mu' = p
    /\ pc' = [pc EXCEPT ![p] = "conn"]
    /\ UNCHANGED << odfiVars, ftp, mail, cfg, built, agentVars, metricVars, call, calls, remoteVars >>

\* connection(): the liveness probe of an existing client.
ConnProbe(p) ==
    /\ pc[p] = "conn"
    /\ IF client = 0
       THEN /\ call' = [call EXCEPT ![p].probe = "nohandle"]
            /\ pc' = [pc EXCEPT ![p] = "dial"]
            /\ UNCHANGED << clientOpen, gauge >>
       ELSE \E ok \in BOOLEAN :
            /\ ok => RemoteUp(client)
            /\ IF ok
               THEN /\ call' = [call EXCEPT ![p].probe = "ok", ![p].held = client]
                    /\ pc' = [pc EXCEPT ![p] = FirstStep(call[p])]
                    /\ gauge' = GaugeAfterConnection(call[p], TRUE)
                    /\ UNCHANGED clientOpen
               ELSE /\ call' = [call EXCEPT ![p].probe = "fail", ![p].old = client]
                    /\ clientOpen' = clientOpen \ {client}
                    /\ pc' = [pc EXCEPT ![p] = "dial"]
                    /\ UNCHANGED gauge
    /\ UNCHANGED << odfiVars, ftp, mail, cfg, built, client, conn, mu, connOpen, pendingClose, nSessions,
                    retries, ctorConnect, warned, onceDone, calls, remoteVars >>

\* A connection() that tries sftpConnect again when it failed.
AfterConnectError_Retry == "dial"

\* connection(): `if err != nil { return nil, fmt.Errorf("upload: %v", err) }`
\* after sftpConnect: the method returns.
AfterConnectError == "ret"

\* connection(): sftpConnect, and agent.conn = conn when it succeeded.
ConnDial(p) ==
    /\ pc[p] = "dial"
    /\ \E outcomes \in DialOutcomes, setupOK \in BOOLEAN :
        LET r == SftpConnect(cfg, outcomes, setupOK)
            id == nSessions + 1
        IN  /\ WithinRetries(r)
            /\ retries' = retries + r.added
            /\ warned' = Warned(r) /\ onceDone' = OnceDone(r)
            /\ nSessions' = IF Dialled(r) THEN id ELSE nSessions
            /\ connOpen' = IF Dialled(r) THEN connOpen \cup {id} ELSE connOpen
            /\ IF r.res = "ok"
               THEN /\ conn' = id
                    /\ call' = [call EXCEPT ![p].connects = @ + 1, ![p].connect = r,
                                             ![p].sess = id]
                    /\ pc' = [pc EXCEPT ![p] = "mkclient"]
                    /\ UNCHANGED << pendingClose, gauge >>
               ELSE /\ conn' = conn
                    /\ pendingClose' = IF Dialled(r) THEN pendingClose \cup {id}
                                       ELSE pendingClose
                    /\ call' = [call EXCEPT
                                  ![p] = Failed([@ EXCEPT !.connects = @ + 1, !.connect = r],
                                              "connect")]
                    /\ pc' = [pc EXCEPT ![p] = AfterConnectError]
                    /\ gauge' = GaugeAfterConnection(call[p], FALSE)
    /\ UNCHANGED << odfiVars, ftp, mail, cfg, built, client, mu, clientOpen, ctorConnect, calls, remoteVars >>

\* connection(): sftp.NewClientPipe, and agent.client = client when it succeeded.
ConnClient(p) ==
    /\ pc[p] = "mkclient"
    /\ \E ok \in BOOLEAN :
        /\ ok => call[p].sess \in connOpen
        /\ IF ok
           THEN /\ client' = call[p].sess
                /\ clientOpen' = clientOpen \cup {call[p].sess}
                /\ call' = [call EXCEPT ![p].held = call[p].sess]
                /\ pc' = [pc EXCEPT ![p] = FirstStep(call[p])]
                /\ gauge' = GaugeAfterConnection(call[p], TRUE)
                /\ UNCHANGED pendingClose
           ELSE /\ pendingClose' = pendingClose \cup ({call[p].sess} \cap connOpen)
                /\ call' = [call EXCEPT ![p] = Failed(@, "client")]
                /\ pc' = [pc EXCEPT ![p] = "ret"]
                /\ gauge' = GaugeAfterConnection(call[p], FALSE)
                /\ UNCHANGED << client, clientOpen >>
    /\ UNCHANGED << odfiVars, ftp, mail, cfg, built, conn, mu, connOpen, nSessions, retries,
                    ctorConnect, warned, onceDone, calls, remoteVars >>

\* The files a caller holds after a call: those of a Get*Files without error.
Kept(c) == IF c.op = "Read" /\ c.res = "ok" THEN [dir |-> c.arg, out |-> c.out] ELSE NoRead

\* What a caller knows of the file it uploaded: the Filename it gave, and the
\* remote path UploadFile wrote.
KeptUpload(c) ==
    IF c.op = "Upload" /\ c.res = "ok" THEN [name |-> c.arg, path |-> c.path] ELSE NoUpload

\* An UploadFile that closes the contents only when it succeeded.
Returned_CloseOnSuccess(c) ==
    [EmptyCall EXCEPT !.fclosed = IF c.op = "Upload" /\ c.res = "ok" THEN c.fclosed + 1
                                  ELSE c.fclosed]

\* What a finished call leaves behind: its locals are gone, and UploadFile's
\* deferred f.Close() has closed the contents of its File.
Returned(c) ==
    [EmptyCall EXCEPT !.fclosed = IF c.op = "Upload" THEN c.fclosed + 1 ELSE c.fclosed]

\* A method that unlocks the mutex only when it returns no error.
Unlocked_OnSuccessOnly(p, c) == IF mu = p /\ c.res = "ok" THEN 0 ELSE mu

\* defer agent.mu.Unlock(): the mutex after the return of a method that
\* locked it (Close never did).
Unlocked(p, c) == IF mu = p THEN 0 ELSE mu

\* The deferred calls of a method run when it returns: agent.mu.Unlock(),
\* and after it UploadFile's f.Close().
Return(p) ==
    /\ pc[p] = "ret"
    /\ mu' = Unlocked(p, call[p])
    /\ call' = [call EXCEPT ![p] = Returned(@)]
    /\ pc' = [pc EXCEPT ![p] = "done"]
    /\ UNCHANGED << odfiVars, ftp, mail, cfg, built, agentVars, metricVars, calls, remoteVars >>

\* The same return, seen from a caller that keeps what the call gave it: the
\* files of a Get*Files, the file an UploadFile wrote.
ReturnKeeping(p) ==
    /\ pc[p] = "ret"
    /\ mu' = Unlocked(p, call[p])
    /\ call' = [call EXCEPT ![p] = [Returned(@) EXCEPT !.last = Kept(call[p]),
                                                       !.uploaded = KeptUpload(call[p])]]
    /\ pc' = [pc EXCEPT ![p] = "done"]
    /\ UNCHANGED << odfiVars, ftp, mail, cfg, built, agentVars, metricVars, calls, remoteVars >>

\* Ping: conn.ReadDir(".") and record(err)
PingReadDir(p) ==
    /\ pc[p] = "readdir"
    /\ \E ok \in BOOLEAN :
        /\ ok => RemoteUp(call[p].held)
        /\ gauge' = Record(ok)
        /\ call' = [call EXCEPT ![p] = IF ok THEN Succeeded(@) ELSE Failed(@, "readdir")]
    /\ pc' = [pc EXCEPT ![p] = "ret"]
    /\ UNCHANGED << odfiVars, ftp, mail, cfg, built, mu, agentVars, retries, ctorConnect, warned,
                    onceDone, calls, remoteVars >>

\* A Close that returns the first error of the two Close calls it makes.
CloseResult_FirstError(c, connErr) ==
    IF connErr THEN Failed(c, "close") ELSE Succeeded(c)

\* Close drops what agent.client.Close() and agent.conn.Close() return:
\* `return nil`.
CloseResult(c, connErr) == Succeeded(c)

\* Close: `if agent == nil { return nil }`, then
\* `if agent.client != nil { agent.client.Close() }`.  Closing a client that is
\* closed already returns an error.
CloseClient(p) ==
    /\ pc[p] = "close1"
    /\ IF NilAgent
       THEN /\ call' = [call EXCEPT ![p] = Succeeded(@)]
            /\ pc' = [pc EXCEPT ![p] = "ret"]
            /\ UNCHANGED clientOpen
       ELSE /\ clientOpen' = IF client # 0 THEN clientOpen \ {client} ELSE clientOpen
            /\ call' = call
            /\ pc' = [pc EXCEPT ![p] = "close2"]
    /\ UNCHANGED << odfiVars, ftp, mail, cfg, built, client, conn, mu, connOpen, pendingClose, nSessions,
                    metricVars, calls, remoteVars >>

\* Close: if agent.conn != nil { agent.conn.Close() }; return nil.  Closing a
\* transport that is closed already returns an error ("stat" keeps what
\* conn.Close() returned).
CloseConn(p) ==
    /\ pc[p] = "close2"
    /\ connOpen' = IF conn # 0 THEN connOpen \ {conn} ELSE connOpen
    /\ pendingClose' = IF conn # 0 THEN pendingClose \ {conn} ELSE pendingClose
    /\ LET connErr == conn # 0 /\ conn \notin connOpen
       IN  call' = [call EXCEPT ![p] =
                       CloseResult([@ EXCEPT !.stat = IF connErr THEN "error" ELSE "ok"],
                                   connErr)]
    /\ pc' = [pc EXCEPT ![p] = "ret"]
    /\ UNCHANGED << odfiVars, ftp, mail, cfg, built, client, conn, mu, clientOpen, nSessions,
                    metricVars, calls, remoteVars >>

\* A Delete that returns every error of the stat, not-found included.
StatIsFatal_NotFoundToo(st) == st # "found"

\* Delete: `if err != nil && !os.IsNotExist(err)` returns the error of the stat
StatIsFatal(st) == st = "error"

\* Delete: info, err := conn.Stat(path)
DeleteStat(p) ==
    /\ pc[p] = "stat"
    /\ \E st \in {"found", "notfound", "error"} :
        /\ st = "found" => RemoteUp(call[p].held) /\ call[p].arg \in files
        /\ st = "notfound" => RemoteUp(call[p].held) /\ call[p].arg \notin files
        /\ call' = [call EXCEPT ![p] =
                      IF StatIsFatal(st) THEN Failed([@ EXCEPT !.stat = st], "stat")
                      ELSE IF st = "found" THEN [@ EXCEPT !.stat = st]
                      ELSE Succeeded([@ EXCEPT !.stat = st])]
        /\ pc' = [pc EXCEPT ![p] = IF ~StatIsFatal(st) /\ st = "found" THEN "remove"
                                   ELSE "ret"]
    /\ UNCHANGED << odfiVars, ftp, mail, cfg, built, mu, agentVars, metricVars, calls, remoteVars >>

\* Delete: if info != nil { conn.Remove(path) }
DeleteRemove(p) ==
    /\ pc[p] = "remove"
    /\ \E ok \in BOOLEAN :
        /\ ok => RemoteUp(call[p].held) /\ call[p].arg \in files
        /\ IF ok
           THEN /\ files' = files \ {call[p].arg}
                /\ content' = [f \in files' |-> content[f]]
                /\ call' = [call EXCEPT ![p] = Succeeded([@ EXCEPT !.removed = TRUE])]
           ELSE /\ files' = files /\ content' = content
                /\ call' = [call EXCEPT ![p] = Failed(@, "remove")]
    /\ pc' = [pc EXCEPT ![p] = "ret"]
    /\ UNCHANGED << odfiVars, ftp, mail, cfg, built, mu, agentVars, metricVars, calls, dirs, listing >>

\* UploadFile: info, err := conn.Stat(agent.cfg.Paths.Outbound), and the test
\* `info == nil || (err != nil && os.IsNotExist(err))` that decides on Mkdir.
UploadStat(p) ==
    /\ pc[p] = "ustat"
    /\ \E st \in {"found", "notfound", "error"} :
        /\ st = "found" => RemoteUp(call[p].held) /\ Outbound \in dirs
        /\ st = "notfound" => RemoteUp(call[p].held) /\ Outbound \notin dirs
        /\ call' = [call EXCEPT ![p].stat = st]
        /\ pc' = [pc EXCEPT ![p] = IF st = "found" THEN "open" ELSE "mkdir"]
    /\ UNCHANGED << odfiVars, ftp, mail, cfg, built, mu, agentVars, metricVars, calls, remoteVars >>

\* UploadFile: conn.Mkdir(agent.cfg.Paths.Outbound)
UploadMkdir(p) ==
    /\ pc[p] = "mkdir"
    /\ \E ok \in BOOLEAN :
        /\ ok => RemoteUp(call[p].held) /\ Outbound \notin dirs /\ Outbound \notin files
        /\ IF ok
           THEN /\ dirs' = dirs \cup {Outbound}
                /\ call' = [call EXCEPT ![p].mkdir = TRUE]
                /\ pc' = [pc EXCEPT ![p] = "open"]
           ELSE /\ dirs' = dirs
                /\ call' = [call EXCEPT ![p] = Failed([@ EXCEPT !.mkdir = TRUE], "mkdir")]
                /\ pc' = [pc EXCEPT ![p] = "ret"]
    /\ UNCHANGED << odfiVars, ftp, mail, cfg, built, mu, agentVars, metricVars, calls, files, content,
                    listing >>

\* An open without O_TRUNC: the bytes of an existing file stay.
OpenForWrite_NoTrunc(old) == old

\* OpenFile with O_TRUNC empties an existing file.
OpenForWrite(old) == << >>

\* n bytes of data written from the start of a file holding old.
Overwrite(old, data, n) == SubSeq(data, 1, n) \o SubSeq(old, n + 1, Len(old))

\* UploadFile: pathToWrite, and conn.OpenFile(pathToWrite, O_WRONLY|O_CREATE|O_TRUNC).
\* The host opens no directory for writing and creates no file in a missing one.
UploadOpen(p) ==
    /\ pc[p] = "open"
    /\ LET path == PathToWrite(Outbound, call[p].arg)
       IN  \E ok \in BOOLEAN :
            /\ ok => RemoteUp(call[p].held) /\ path \notin dirs /\ Dir(path) \in dirs
            /\ IF ok
               THEN /\ files' = files \cup {path}
                    /\ content' = [f \in files' |->
                                      IF f # path THEN content[f]
                                      ELSE IF path \in files THEN OpenForWrite(content[path])
                                      ELSE << >>]
                    /\ call' = [call EXCEPT ![p].path = path, ![p].fd = "open"]
                    /\ pc' = [pc EXCEPT ![p] = "copy"]
               ELSE /\ files' = files /\ content' = content
                    /\ call' = [call EXCEPT ![p] = Failed([@ EXCEPT !.path = path], "open")]
                    /\ pc' = [pc EXCEPT ![p] = "ret"]
    /\ UNCHANGED << odfiVars, ftp, mail, cfg, built, mu, agentVars, metricVars, calls, dirs, listing >>

\* UploadFile: io.Copy(fd, f.Contents) writes every byte of the contents; on
\* its error, after fewer bytes, fd.Close() and return.
UploadCopy(p) ==
    /\ pc[p] = "copy"
    /\ LET c == call[p]
       IN  \E n \in 0..Len(c.data) :
            LET ok == n = Len(c.data) IN
            /\ ok => RemoteUp(c.held)
            /\ content' = IF c.path \in files
                           THEN [content EXCEPT ![c.path] = Overwrite(@, c.data, n)]
                           ELSE content
            /\ \/ /\ ok
                  /\ call' = call
                  /\ pc' = [pc EXCEPT ![p] = "sync"]
               \/ /\ ~ok \/ c.data = << >>
                  /\ call' = [call EXCEPT ![p] = Failed([@ EXCEPT !.fd = "closed"], "copy")]
                  /\ pc' = [pc EXCEPT ![p] = "ret"]
    /\ UNCHANGED << odfiVars, ftp, mail, cfg, built, mu, agentVars, metricVars, calls, dirs, files, listing >>

\* UploadFile: fd.Sync(); SSH_FX_OP_UNSUPPORTED is skipped
UploadSync(p) ==
    /\ pc[p] = "sync"
    /\ \E r \in {"ok", "unsupported", "error"} :
        /\ r # "error" => RemoteUp(call[p].held)
        /\ IF r # "error"
           THEN /\ call' = call
                /\ pc' = [pc EXCEPT ![p] = "chmod"]
           ELSE /\ call' = [call EXCEPT ![p] = Failed(@, "sync")]
                /\ pc' = [pc EXCEPT ![p] = "ret"]
    /\ UNCHANGED << odfiVars, ftp, mail, cfg, built, mu, agentVars, metricVars, calls, remoteVars >>

\* UploadFile: fd.Chmod(0600)
UploadChmod(p) ==
    /\ pc[p] = "chmod"
    /\ \E ok \in BOOLEAN :
        /\ ok => RemoteUp(call[p].held)
        /\ IF ok
           THEN /\ call' = call
                /\ pc' = [pc EXCEPT ![p] = "fclose"]
           ELSE /\ call' = [call EXCEPT ![p] = Failed(@, "chmod")]
                /\ pc' = [pc EXCEPT ![p] = "ret"]
    /\ UNCHANGED << odfiVars, ftp, mail, cfg, built, mu, agentVars, metricVars, calls, remoteVars >>

\* UploadFile: fd.Close(); return nil
UploadClose(p) ==
    /\ pc[p] = "fclose"
    /\ \E ok \in BOOLEAN :
        /\ ok => RemoteUp(call[p].held)
        /\ call' = [call EXCEPT ![p] =
                      IF ok THEN Succeeded([@ EXCEPT !.fd = "closed"])
                      ELSE Failed([@ EXCEPT !.fd = "closed"], "close")]
    /\ pc' = [pc EXCEPT ![p] = "ret"]
    /\ UNCHANGED << odfiVars, ftp, mail, cfg, built, mu, agentVars, metricVars, calls, remoteVars >>

\* readFiles: infos, err := conn.ReadDir(dir); an empty directory ends the
\* loop at once and `return files, nil` follows.
ReadDir(p) ==
    /\ pc[p] = "rdir"
    /\ \E ok \in BOOLEAN :
        /\ ok => RemoteUp(call[p].held)
        /\ IF ok
           THEN LET infos == [i \in 1..Len(listing[call[p].arg]) |->
                                listing[call[p].arg][i].name]
                IN  IF infos = << >>
                    THEN /\ call' = [call EXCEPT ![p] = Succeeded(@)]
                         /\ pc' = [pc EXCEPT ![p] = "ret"]
                    ELSE /\ call' = [call EXCEPT ![p].infos = infos, ![p].idx = 1]
                         /\ pc' = [pc EXCEPT ![p] = "rloop"]
           ELSE /\ call' = [call EXCEPT ![p] = Failed(@, "readdir")]
                /\ pc' = [pc EXCEPT ![p] = "ret"]
    /\ UNCHANGED << odfiVars, ftp, mail, cfg, built, mu, agentVars, metricVars, calls, remoteVars >>

\* The entry of the directory with the name.
Lookup(l, name) == l[CHOOSE i \in 1..Len(l) : l[i].name = name]

\* An open that truncates the file, as OpenFile with O_TRUNC would.
OpenForRead_Truncating(l, name) ==
    [i \in 1..Len(l) |-> IF l[i].name = name /\ ~l[i].isDir
                          THEN [l[i] EXCEPT !.data = << >>] ELSE l[i]]

\* readFiles: conn.Open(path) opens read-only: the directory stays as it is.
OpenForRead(l, name) == l

\* A loop that takes a subdirectory for a file.
SkipEntry_Never(info) == FALSE

\* readFiles: `if info.IsDir() { fd.Close(); continue }`
SkipEntry(info) == info.isDir

\* readFiles: what the error test after io.Copy lets pass.  Both branches of
\* the test on ErrInternalInconsistency return an error.
CopyErrorIsFatal(r) == r \in {"inconsistent", "error"}

\* readFiles: one turn of the loop over infos: conn.Open, fd.Stat, the test
\* for a directory, io.Copy into a buffer, fd.Close and the append; after the
\* last entry `return files, nil`.
ReadEntry(p) ==
    /\ pc[p] = "rloop"
    /\ LET c == call[p]
           name == c.infos[c.idx]
           last == c.idx = Len(c.infos)
           next == [c EXCEPT !.idx = @ + 1]
           Continue(d) == IF last THEN Succeeded(d) ELSE d
       IN  \E r \in {"openfail", "statfail", "ok", "inconsistent", "error"} :
            /\ r \in {"ok", "inconsistent"} => RemoteUp(c.held)
            /\ listing' = IF r = "openfail" THEN listing
                           ELSE [listing EXCEPT ![c.arg] = OpenForRead(@, name)]
            /\ LET info == Lookup(listing'[c.arg], name)
               IN  CASE r = "openfail" ->
                          /\ call' = [call EXCEPT ![p] = Failed(c, "open")]
                          /\ pc' = [pc EXCEPT ![p] = "ret"]
                     [] r = "statfail" ->
                          /\ call' = [call EXCEPT ![p] = Failed(c, "fstat")]
                          /\ pc' = [pc EXCEPT ![p] = "ret"]
                     [] r \in {"ok", "inconsistent", "error"} /\ SkipEntry(info) ->
                          /\ r = "ok"
                          /\ call' = [call EXCEPT ![p] = Continue(next)]
                          /\ pc' = [pc EXCEPT ![p] = IF last THEN "ret" ELSE "rloop"]
                     [] r \in {"ok", "inconsistent", "error"} /\ ~SkipEntry(info) ->
                          IF r # "ok" /\ CopyErrorIsFatal(r)
                          THEN /\ call' = [call EXCEPT ![p] = Failed(c, r)]
                               /\ pc' = [pc EXCEPT ![p] = "ret"]
                          ELSE /\ call' = [call EXCEPT ![p] =
                                             Continue([next EXCEPT !.out =
                                                Append(@, [name |-> name, data |-> info.data])])]
                               /\ pc' = [pc EXCEPT ![p] = IF last THEN "ret" ELSE "rloop"]
    /\ UNCHANGED << odfiVars, ftp, mail, cfg, built, mu, agentVars, metricVars, calls, dirs, files, content >>

\* A goroutine constructs another agent of the process, of configuration c:
\* newSFTPTransferAgent reaches sftpConnect through connection().
StartConstruct(p, c) ==
    /\ pc[p] \in {"idle", "done"}
    /\ calls' = calls + 1
    /\ call' = [call EXCEPT ![p] = [EmptyCall EXCEPT !.op = "Construct", !.arg = c]]
    /\ pc' = [pc EXCEPT ![p] = "kcheck"]
    /\ UNCHANGED << odfiVars, ftp, mail, cfg, built, mu, agentVars, metricVars, remoteVars >>

\* sftpConnect of the other agent, up to its dial loop.
ConstructCheck(p) ==
    /\ pc[p] = "kcheck"
    /\ LET k == ConnectConfig(call[p].arg)
       IN  /\ warned' = Warned(k) /\ onceDone' = OnceDone(k)
           /\ call' = [call EXCEPT ![p].connect = k]
           /\ pc' = [pc EXCEPT ![p] = IF k.res \in Refused THEN "done" ELSE "kdial"]
    /\ UNCHANGED << odfiVars, ftp, mail, cfg, built, mu, agentVars, retries, gauge, ctorConnect, calls,
                    remoteVars >>

\* sftpConnect of the other agent from its dial loop on.  Its transports and
\* the retry counter of its hostname are not followed.
ConstructDial(p) ==
    /\ pc[p] = "kdial"
    /\ \E outcomes \in [1..DialAttempts -> BOOLEAN], setupOK \in BOOLEAN :
        call' = [call EXCEPT ![p].connect = ConnectDial(@, outcomes, setupOK)]
    /\ pc' = [pc EXCEPT ![p] = "done"]
    /\ UNCHANGED << odfiVars, ftp, mail, cfg, built, mu, agentVars, metricVars, calls, remoteVars >>

\* The calls a goroutine can start, and the steps of the call it is in.
Begin(p, limit, names, datas, paths, rdirs) ==
    /\ calls < limit
    /\ \/ Start(p, "Ping", <<>>, <<>>)
       \/ Start(p, "Close", <<>>, <<>>)
       \/ \E path \in paths : Start(p, "Delete", path, <<>>)
       \/ \E name \in names, data \in datas : Start(p, "Upload", name, data)
       \/ \E d \in rdirs : Start(p, "Read", d, <<>>)

Step(p) ==
    \/ Lock(p)
    \/ ConnProbe(p)
    \/ ConnDial(p)
    \/ ConnClient(p)
    \/ Return(p)
    \/ PingReadDir(p)
    \/ CloseClient(p)
    \/ CloseConn(p)
    \/ DeleteStat(p)
    \/ DeleteRemove(p)
    \/ UploadStat(p)
    \/ UploadMkdir(p)
    \/ UploadOpen(p)
    \/ UploadCopy(p)
    \/ UploadSync(p)
    \/ UploadChmod(p)
    \/ UploadClose(p)
    \/ ReadDir(p)
    \/ ReadEntry(p)

\* The directory the single caller reads: GetInboundFiles (the three Get*Files
\* differ only in the path they hand to readFiles).
SpecDirs == { "Inbound" }

\* One goroutine uses the agent: every configuration, every input.
Next ==
    \/ NewAgent
    \/ AsyncClose
    \/ Begin(1, MaxCalls, Filenames, OneContent, DeletePaths, SpecDirs)
    \/ Step(1)

Spec == Init /\ [][Next]_vars

\* Several goroutines share an agent of one valid configuration whose
\* construction connected at its first dial.
ConcFilenames == { <<"a">> }
ConcPaths == { <<"/", "o", "/", "a">> }
ConcDirs == { "Inbound" }

InitConc ==
    /\ Init
    /\ cfg.sftp /\ cfg.allowed /\ cfg.auth = "password" /\ ~cfg.skipMkdir
    /\ dirs = {Root, Outbound} /\ files = {<<"/", "o", "/", "a">>}

NextConc ==
    \/ NewAgent /\ built' = "ok" /\ retries' = 0
    \/ AsyncClose
    \/ \E p \in Callers :
        \/ Begin(p, MaxConcCalls, ConcFilenames, OneContent, ConcPaths, ConcDirs)
        \/ Step(p)

SpecConc == InitConc /\ [][NextConc]_vars

\* One goroutine calls Get*Files again and again on a connected agent; the
\* Inbound and the Return directory hold any of the Listings.
ReadSpecDirs == { "Inbound", "Return" }

InitRead ==
    /\ cfg \in Configs /\ InitAgent
    /\ cfg.sftp /\ cfg.allowed /\ cfg.auth = "password" /\ cfg.skipMkdir
    /\ dirs = {Root, Outbound}
    /\ listing \in { [d \in ReadDirs |-> l] : l \in Listings }
    /\ OdfiIdle

BeginRead(p) ==
    /\ calls < MaxCalls
    /\ \E d \in ReadSpecDirs : Start(p, "Read", d, <<>>)

StepRead(p) ==
    \/ Lock(p)
    \/ ConnProbe(p)
    \/ ConnDial(p)
    \/ ConnClient(p)
    \/ ReturnKeeping(p)
    \/ ReadDir(p)
    \/ ReadEntry(p)

NextRead ==
    \/ NewAgent /\ built' = "ok" /\ retries' = 0
    \/ AsyncClose
    \/ BeginRead(1)
    \/ StepRead(1)

SpecRead == InitRead /\ [][NextRead]_vars

\* One goroutine uploads files of any contents and deletes paths on a
\* connected agent: the Filename it gave, or the path the upload wrote.
XferNames == { <<"a">>, <<".", ".", "/", "a">> }
XferPaths == { <<"a">>, <<"/", "o", "/", "a">> }

InitXfer ==
    /\ Init
    /\ cfg.sftp /\ cfg.allowed /\ cfg.auth = "password" /\ ~cfg.skipMkdir

BeginXfer(p) ==
    /\ calls < MaxCalls
    /\ \/ \E name \in XferNames, data \in Contents : Start(p, "Upload", name, data)
       \/ \E path \in XferPaths : Start(p, "Delete", path, <<>>)

StepXfer(p) ==
    \/ Lock(p)
    \/ ConnProbe(p)
    \/ ConnDial(p)
    \/ ConnClient(p)
    \/ ReturnKeeping(p)
    \/ DeleteStat(p)
    \/ DeleteRemove(p)
    \/ UploadStat(p)
    \/ UploadMkdir(p)
    \/ UploadOpen(p)
    \/ UploadCopy(p)
    \/ UploadSync(p)
    \/ UploadChmod(p)
    \/ UploadClose(p)

NextXfer ==
    \/ NewAgent /\ built' = "ok" /\ retries' = 0
    \/ AsyncClose
    \/ BeginXfer(1)
    \/ StepXfer(1)

SpecXfer == InitXfer /\ [][NextXfer]_vars

\* The process constructs several agents, of any credentials and host key:
\* the agent of cfg, and one after the other those a goroutine constructs
\* while the construction of the first may run in between.
InitConnect ==
    /\ cfg \in ConnectConfigs /\ InitAgent
    /\ dirs = {Root, Outbound}
    /\ listing = DefaultListing
    /\ OdfiIdle

BeginConstruct(p) ==
    /\ calls < MaxCalls
    /\ \E c \in ConnectConfigs : StartConstruct(p, c)

NextConnect ==
    \/ NewAgent
    \/ AsyncClose
    \/ BeginConstruct(1)
    \/ ConstructCheck(1)
    \/ ConstructDial(1)

SpecConnect == InitConnect /\ [][NextConnect]_vars

\* Several goroutines each call one locking method of one connected agent at
\* the same time.  The scheduler runs a goroutine that can take a step as long
\* as there is one.
BeginLocked(p) ==
    /\ pc[p] = "idle"
    /\ \/ Start(p, "Ping", <<>>, <<>>)
       \/ \E path \in ConcPaths : Start(p, "Delete", path, <<>>)
       \/ \E name \in ConcFilenames, data \in OneContent : Start(p, "Upload", name, data)
       \/ \E d \in ConcDirs : Start(p, "Read", d, <<>>)

\* An sftpConnect whose first dial is answered: no dial is tried again.
DialOnce(p) == ConnDial(p) /\ retries' = retries

StepLocked(p) ==
    \/ Lock(p)
    \/ ConnProbe(p)
    \/ DialOnce(p)
    \/ ConnClient(p)
    \/ Return(p)
    \/ PingReadDir(p)
    \/ DeleteStat(p)
    \/ DeleteRemove(p)
    \/ UploadStat(p)
    \/ UploadMkdir(p)
    \/ UploadOpen(p)
    \/ UploadCopy(p)
    \/ UploadSync(p)
    \/ UploadChmod(p)
    \/ UploadClose(p)
    \/ ReadDir(p)
    \/ ReadEntry(p)

NextLock ==
    \/ NewAgent /\ built' = "ok" /\ retries' = 0
    \/ \E p \in Callers :
        \/ BeginLocked(p)
        \/ StepLocked(p)

FairLock == WF_vars(NextLock)

SpecLock == InitConc /\ [][NextLock]_vars /\ FairLock

(***************************************************************************)
(* populateHashes                                                          *)
(***************************************************************************)
\* The content identity of a record: a function of its line alone.
Hash(line) == << "sha1", line >>

\* A populateHashes that stops after the first entry of each batch.
HashEntries_FirstOnly(entries) ==
    [j \in 1..Len(entries) |->
        IF j = 1 THEN [entries[j] EXCEPT !.id = Hash(entries[j].line)] ELSE entries[j]]

\* populateHashes: every entry of the batch gets the hash of its line.
HashEntries(entries) ==
    [j \in 1..Len(entries) |-> [entries[j] EXCEPT !.id = Hash(entries[j].line)]]

\* populateHashes(file): the entries of every batch get their identity; the
\* ID of the batch is left as it is.
WithHashes(file) ==
    [file EXCEPT !.batches =
        [i \in 1..Len(file.batches) |->
            [file.batches[i] EXCEPT !.entries = HashEntries(@)]]]

PopulateHashes ==
    /\ ~hashed
    /\ achFile' = WithHashes(achFile)
    /\ hashed' = TRUE
    /\ UNCHANGED << scan, ftp, mail, cfg, built, mu, agentVars, metricVars, pc, call, calls, remoteVars >>

\* ach.ReadFile has returned any of the ParsedFiles; populateHashes runs on it.
InitHash ==
    /\ cfg \in { c \in Configs : c.sftp /\ c.allowed /\ c.auth = "password" /\ c.skipMkdir }
    /\ InitAgent
    /\ dirs = {Root, Outbound}
    /\ listing = DefaultListing
    /\ achFile \in ParsedFiles /\ hashed = FALSE /\ scan = NoScan
    /\ ftp = NoFTP /\ mail = NoMail

NextHash == PopulateHashes

SpecHash == InitHash /\ [][NextHash]_vars

(***************************************************************************)
(* processDir and processFile                                              *)
(***************************************************************************)
\* What ach.ReadFile answers for the bytes of a staged file: no error, the
\* error of a file in which no file header was found (ach.ErrFileHeader), or
\* the error of a header that fails field validation (*ach.FieldError).
ParseErrors == { "none", "header", "field" }
FileBytes == { "bytes1", "bytes2" }

\* The entries of the staged directory: subdirectories, and files with their
\* bytes, what the parser makes of them and the batches it finds.
StagedDir == [isDir |-> TRUE, bytes |-> "none", err |-> "none", batches |-> 0]
StagedFiles == [isDir : {FALSE}, bytes : FileBytes, err : ParseErrors, batches : 0..1]
StagedListings ==
    UNION { [1..n -> StagedFiles \cup {StagedDir}] : n \in 0..MaxEntries }

Chain == 1..NProcessors

\* The structure ach.ReadFile returns for a staged file.
Parsed(e) ==
    [headerValid |-> e.err = "none",
     batches |-> [i \in 1..e.batches |->
                    [id |-> NoID, entries |-> << [line |-> "entry1", id |-> NoID] >>]]]

\* A processFile that gives up on every error of the parser.
ParseIsFatal_AnyError(err) == err # "none"

\* processFile goes on after ach.ErrFileHeader and returns every other error
\* of the parser.
ParseIsFatal(err) == err \notin { "none", "header" }

\* processDir(dir, auditSaver, processors): os.ReadDir(dir)
ListDir ==
    /\ scan.stage = "list"
    /\ \E ok \in BOOLEAN :
        scan' = IF ok THEN [scan EXCEPT !.stage = "files", !.idx = 1]
                ELSE [scan EXCEPT !.stage = "done", !.res = "err"]
    /\ UNCHANGED << achFile, hashed, ftp, mail, cfg, built, mu, agentVars, metricVars, pc, call,
                    calls, remoteVars >>

\* What the processors were handed: the file with its identity, the hash of
\* its bytes, and the identities populateHashes gave its entries.
Handled(k, i, e) ==
    [proc |-> k, at |-> i, id |-> Hash(e.bytes), file |-> WithHashes(Parsed(e))]

\* One turn of the loop of processDir: a subdirectory is skipped, a file goes
\* through processFile (parse, identity, audit save, then every processor of
\* the chain in order); the error of processFile is added to the list.
ProcessEntry ==
    /\ scan.stage = "files" /\ scan.idx <= Len(scan.staged)
    /\ LET i == scan.idx
           e == scan.staged[i]
           next == [scan EXCEPT !.idx = i + 1]
       IN  IF e.isDir THEN scan' = next
           ELSE IF ParseIsFatal(e.err)
           THEN scan' = [next EXCEPT !.errs = Append(@, [at |-> i, cause |-> "parse"])]
           ELSE \E saved \in BOOLEAN, fails \in SUBSET Chain :
                IF ~saved
                THEN scan' = [next EXCEPT !.errs = Append(@, [at |-> i, cause |-> "audit"])]
                ELSE scan' = [next EXCEPT
                                !.handled = @ \o [k \in Chain |-> Handled(k, i, e)],
                                !.errs = IF fails = {} THEN @
                                         ELSE Append(@, [at |-> i, cause |-> "processor"])]
    /\ UNCHANGED << achFile, hashed, ftp, mail, cfg, built, mu, agentVars, metricVars, pc, call,
                    calls, remoteVars >>

\* processDir returns nil when the list of errors is empty, else the list.
ProcessDirReturn ==
    /\ scan.stage = "files" /\ scan.idx > Len(scan.staged)
    /\ scan' = [scan EXCEPT !.stage = "done",
                            !.res = IF scan.errs = << >> THEN "ok" ELSE "err"]
    /\ UNCHANGED << achFile, hashed, ftp, mail, cfg, built, mu, agentVars, metricVars, pc, call,
                    calls, remoteVars >>

\* processDir is called on a staged directory of any of the StagedListings.
InitScan ==
    /\ cfg \in { c \in Configs : c.sftp /\ c.allowed /\ c.auth = "password" /\ c.skipMkdir }
    /\ InitAgent
    /\ dirs = {Root, Outbound}
    /\ listing = DefaultListing
    /\ achFile = NoFile /\ hashed = FALSE /\ ftp = NoFTP /\ mail = NoMail
    /\ scan \in { [NoScan EXCEPT !.staged = l, !.stage = "list"] : l \in StagedListings }

NextScan == ListDir \/ ProcessEntry \/ ProcessDirReturn

SpecScan == InitScan /\ [][NextScan]_vars

(***************************************************************************)
(* service.FTP.String()                                                    *)
(***************************************************************************)
\* Texts are sequences of characters.
PasswordChars == { "p", "a", "s", "*" }
Passwords == UNION { [1..n -> PasswordChars] : n \in 2..MaxPassword }
Hostnames == { <<"h", "o", "s", "t">> }
Usernames == { <<"u", "s", "e", "r">>, <<"p", "a", "s", "s">> }

HostnameLabel == <<"H", "o", "s", "t", "n", "a", "m", "e", "=">>
UsernameLabel == <<",", " ", "U", "s", "e", "r", "n", "a", "m", "e", "=">>
PasswordLabel == <<",", " ", "P", "a", "s", "s", "w", "o", "r", "d", "=">>

\* strings.Repeat("*", n)
Stars(n) == [i \in 1..n |-> "*"]

\* A mask of two asterisks whatever the length of the password.
Hidden_TwoStars(n) == Stars(2)

\* The characters between the first and the last become one asterisk each.
Hidden(n) == Stars(n)

\* The masked password: its first character, the asterisks, its last character.
Mask(pw) == << pw[1] >> \o Hidden(Len(pw) - 2) \o << pw[Len(pw)] >>

\* cfg.String(): the fields of the configuration, the password masked.
String(c) ==
    HostnameLabel \o c.hostname \o UsernameLabel \o c.username
        \o PasswordLabel \o Mask(c.password)

\* cfg.String() is called.
PrintFTP ==
    /\ ~ftp.printed
    /\ ftp' = [ftp EXCEPT !.printed = TRUE, !.out = String(ftp)]
    /\ UNCHANGED << odfiVars, mail, cfg, built, mu, agentVars, metricVars, pc, call,
                    calls, remoteVars >>

\* A configuration of any host name, user name and password.
InitString ==
    /\ cfg \in { c \in Configs : c.sftp /\ c.allowed /\ c.auth = "password" /\ c.skipMkdir }
    /\ InitAgent
    /\ dirs = {Root, Outbound}
    /\ listing = DefaultListing
    /\ achFile = NoFile /\ hashed = FALSE /\ scan = NoScan /\ mail = NoMail
    /\ ftp \in { [NoFTP EXCEPT !.hostname = h, !.username = u, !.password = pw] :
                    h \in Hostnames, u \in Usernames, pw \in Passwords }

NextString == PrintFTP

SpecString == InitString /\ [][NextString]_vars

(***************************************************************************)
(* sendEmail                                                               *)
(***************************************************************************)
\* What dialer.DialAndSend returns: nil or an error, given by the words of
\* its text.
MailErrors == { <<"dial", "tcp", "i/o timeout">>, <<"read", "i/o timeout">>,
                <<"535", "authentication", "failed">> }
MailOutcomes == { Nil } \cup MailErrors

\* strings.Contains(outErr.Error(), "i/o timeout")
IsTimeout(err) == \E i \in 1..Len(err) : err[i] = "i/o timeout"

\* A loop that tries again after every error.
Retry_EveryError(err) == err # Nil

\* sendEmail sleeps and continues the loop after an "i/o timeout" only.
Retry(err) == IsTimeout(err)

\* maxRetries := 3; if cfg.MaxRetries > 0 { maxRetries = cfg.MaxRetries }
MailMaxRetries(n) == IF n > 0 THEN n ELSE DefaultMailRetries

\* sendEmail is called: the message is built, maxRetries is set, tries := 1.
SendEmailBegin ==
    /\ mail.stage = "called"
    /\ mail' = [mail EXCEPT !.stage = "loop", !.tries = 1,
                            !.maxRetries = MailMaxRetries(mail.cfgMaxRetries)]
    /\ UNCHANGED << odfiVars, ftp, cfg, built, mu, agentVars, metricVars, pc, call,
                    calls, remoteVars >>

\* One turn of the loop: outErr = dialer.DialAndSend(ctx, m), then return nil,
\* return outErr, or sleep and continue with tries++.
DialAndSend ==
    /\ mail.stage = "loop" /\ mail.tries <= mail.maxRetries
    /\ \E out \in MailOutcomes :
        LET tried == [mail EXCEPT !.outErr = out, !.sent = Append(@, out)]
        IN  mail' = IF out = Nil THEN [tried EXCEPT !.stage = "done", !.res = Nil]
                    ELSE IF Retry(out) THEN [tried EXCEPT !.tries = @ + 1]
                    ELSE [tried EXCEPT !.stage = "done", !.res = out]
    /\ UNCHANGED << odfiVars, ftp, cfg, built, mu, agentVars, metricVars, pc, call,
                    calls, remoteVars >>

\* The loop ends with tries > maxRetries: return outErr
SendEmailReturn ==
    /\ mail.stage = "loop" /\ mail.tries > mail.maxRetries
    /\ mail' = [mail EXCEPT !.stage = "done", !.res = mail.outErr]
    /\ UNCHANGED << odfiVars, ftp, cfg, built, mu, agentVars, metricVars, pc, call,
                    calls, remoteVars >>

\* sendEmail is called with any cfg.MaxRetries: negative, zero or positive.
InitMail ==
    /\ cfg \in { c \in Configs : c.sftp /\ c.allowed /\ c.auth = "password" /\ c.skipMkdir }
    /\ InitAgent
    /\ dirs = {Root, Outbound}
    /\ listing = DefaultListing
    /\ achFile = NoFile /\ hashed = FALSE /\ scan = NoScan /\ ftp = NoFTP
    /\ mail \in { [NoMail EXCEPT !.cfgMaxRetries = n, !.stage = "called"] :
                     n \in (-1)..MaxCfgRetries }

NextMail == SendEmailBegin \/ DialAndSend \/ SendEmailReturn

SpecMail == InitMail /\ [][NextMail]_vars

(***************************************************************************)
(* The properties.                                                         *)
(***************************************************************************)
\* A caller is between the start of connection() and its last remote call.
SessionPcs == { "conn", "dial", "mkclient", "readdir", "stat", "remove", "ustat",
                "mkdir", "open", "copy", "sync", "chmod", "fclose", "rdir", "rloop" }
InSession(p) == pc[p] \in SessionPcs
RemotePcs == SessionPcs \ {"conn", "dial", "mkclient"}

\* C1: among the callers of Ping, Delete, UploadFile and Get*Files of one
\* agent, at most one is between acquiring the session and finishing its
\* last remote call (checked under SpecConc).
C1_SessionUseSerialized ==
    \A p, q \in Callers :
        (p # q /\ call[p].op \in LockedOps /\ call[q].op \in LockedOps)
            => ~(InSession(p) /\ InSession(q))

\* One caller is in a remote call of its UploadFile while another waits for
\* the mutex with its Ping.
C1_Witness ==
    \E p, q \in Callers :
        /\ pc[p] = "copy" /\ call[p].op = "Upload"
        /\ pc[q] = "lock" /\ call[q].op = "Ping"

\* C2: Close never closes the SFTP client or the SSH transport of the agent
\* while another caller is between acquiring the session and completing its
\* remote calls (checked under SpecConc).
C2_CloseSerialized ==
    [][ \A p \in Callers :
          ( \/ CloseClient(p) /\ clientOpen' # clientOpen
            \/ CloseConn(p) /\ connOpen' # connOpen )
          => \A q \in Callers \ {p} : ~InSession(q) ]_vars

\* C3: the agent owns at most one unclosed SSH transport and at most one
\* unclosed SFTP client (a transport whose spawned Close has not run yet is
\* counted as closed).
C3_AtMostOneUnclosed ==
    /\ Cardinality(connOpen \ pendingClose) <= 1
    /\ Cardinality(clientOpen) <= 1

\* C4: a call acquires the session before its remote calls and makes at most
\* one sftpConnect: none when the probe of the existing client succeeds (the
\* client is reused), exactly one when there is no client or the probe fails
\* (the probed client is closed), and a failed sftpConnect ends the call with
\* an error.
C4_OneConnectPerCall ==
    \A p \in Callers :
        LET c == call[p] IN
        c.op \in LockedOps =>
            /\ c.connects <= 1
            /\ pc[p] \in {"lock", "conn"} =>
                   c.connects = 0 /\ c.held = 0 /\ c.stat = "none" /\ c.fd = "none"
            /\ c.probe = "ok" => c.connects = 0 /\ c.held = client /\ c.sess = 0
            /\ c.probe = "fail" => c.old # 0 /\ c.old \notin clientOpen
            /\ (c.probe \in {"fail", "nohandle"} /\ pc[p] \notin {"conn", "dial"})
                   => c.connects = 1
            /\ pc[p] \in RemotePcs => c.held # 0 /\ c.held = client
            /\ c.at = "connect" => pc[p] = "ret" /\ c.res = "err" /\ c.held = 0

\* A call whose probe failed and whose one sftpConnect failed is returning.
C4_Witness ==
    \E p \in Callers :
        /\ call[p].probe = "fail" /\ call[p].at = "connect"
        /\ call[p].connects = 1 /\ pc[p] = "ret"

\* The sftpConnect calls whose record the state holds.
FinishedConnects ==
    { r \in {ctorConnect} \cup { call[p].connect : p \in Callers } : r.res # "none" }

AllFailed(r) == \A k \in 1..Len(r.log) : ~r.log[k]
NoDialAfterSuccess(r) == \A k \in 1..Len(r.log) : r.log[k] => k = Len(r.log)

DialLoopContract(r) ==
    /\ r.attempts >= 1 /\ r.attempts <= DialAttempts
    /\ r.attempts = Len(r.log)
    /\ NoDialAfterSuccess(r)
    /\ r.added = r.attempts - 1
    /\ r.res = "dial" <=> (r.attempts = DialAttempts /\ AllFailed(r))

\* C5 as stated: every sftpConnect makes between one and three dials, none
\* after a success, adds attempts - 1 to the retry counter and returns the
\* dial error exactly when all three dials failed.
C5_EveryConnectDials == \A r \in FinishedConnects : DialLoopContract(r)

\* C5 as amended: an sftpConnect whose configuration passes the checks made
\* before the dial loop makes between one and three dials, none after a
\* success, adds attempts - 1 to the retry counter and returns the dial error
\* exactly when all three dials failed; an sftpConnect whose configuration
\* is refused makes no dial and leaves the counter alone.
C5_DialLoop ==
    /\ \A r \in FinishedConnects :
         IF r.res \in Refused
         THEN r.attempts = 0 /\ r.added = 0 /\ r.log = <<>>
         ELSE DialLoopContract(r)
    /\ (calls = 0 /\ built # "none") => retries = ctorConnect.added

\* A construction whose three dials failed: two increments of the counter.
C5_Witness ==
    /\ ctorConnect.res = "dial" /\ ctorConnect.attempts = 3 /\ retries = 2
    /\ \E p \in Callers : call[p].connect.res = "ok" /\ call[p].connect.attempts = 1

\* C6: after a construction that failed because every dial failed, no later
\* operation on the agent it returned dials again or holds a client.
C6_FailedConstructionIsTerminal ==
    built = "dialfailed" =>
        /\ client = 0
        /\ \A p \in Callers : call[p].connect.attempts = 0

\* C7: a rejected hostname ends the construction with no agent and before
\* any dial, increment of the retry counter or write of the gauge; dials are
\* made only for a hostname that passed the check.
C7_CheckBeforeDial ==
    /\ built = "rejected" =>
         /\ ~AgentReturned
         /\ ctorConnect = NoConnect /\ nSessions = 0 /\ retries = 0 /\ gauge = -1
         /\ client = 0 /\ conn = 0
         /\ \A p \in Callers : call[p].op \in {"none", "Close"}
    /\ (\E r \in FinishedConnects : r.attempts > 0) => cfg.allowed
    /\ (nSessions > 0 \/ retries > 0 \/ gauge # -1) => cfg.allowed

\* The construction for a hostname outside the allowed ranges has returned.
C7_Witness == built = "rejected" /\ ~cfg.allowed /\ cfg.auth = "password"

\* A Delete that acquired the session has made its remote calls.
DeleteDone(p) == call[p].op = "Delete" /\ pc[p] = "ret" /\ call[p].held # 0

\* C8 as stated: a Delete of a missing path returns no error and removes
\* nothing, a Delete of an existing path removes it and returns no error, and
\* another failure of the stat is returned and nothing is removed.
C8_DeleteAlwaysRemoves ==
    \A p \in Callers :
        LET c == call[p] IN
        DeleteDone(p) =>
            /\ c.stat = "notfound" => c.res = "ok" /\ ~c.removed
            /\ c.stat = "found" => c.res = "ok" /\ c.removed /\ c.arg \notin files
            /\ c.stat = "error" => c.res = "err" /\ ~c.removed

\* C8 as amended: for an existing path Delete calls Remove; when Remove
\* succeeds the path is gone and no error is returned, when Remove fails its
\* error is returned and the path stays.  The rest is as stated.
C8_Delete ==
    \A p \in Callers :
        LET c == call[p] IN
        DeleteDone(p) =>
            /\ c.stat = "notfound" => c.res = "ok" /\ ~c.removed /\ c.arg \notin files
            /\ c.stat = "found" =>
                 \/ c.res = "ok" /\ c.removed /\ c.arg \notin files
                 \/ c.res = "err" /\ c.at = "remove" /\ ~c.removed /\ c.arg \in files
            /\ c.stat = "error" => c.res = "err" /\ c.at = "stat" /\ ~c.removed

\* A Delete of a missing path has returned no error.
C8_Witness ==
    \E p \in Callers :
        DeleteDone(p) /\ call[p].stat = "notfound" /\ call[p].res = "ok"
                      /\ call[p].arg = <<"/", "m">>

\* C9: whatever way UploadFile returns, the return closes the contents of
\* the File exactly once: they are not closed before and are closed after.
C9_ContentsClosedOnReturn ==
    [][ \A p \in Callers :
          (call[p].op = "Upload" /\ pc[p] # "done" /\ pc'[p] = "done")
          => call[p].fclosed = 0 /\ call'[p].fclosed = 1 ]_vars

\* An UploadFile that could not acquire the connection has returned.
C9_Witness ==
    \E p \in Callers : pc[p] = "done" /\ call[p].fclosed = 1 /\ client = 0

\* The path is a name inside the directory, one level deep.
IsDirectChild(path, dir) ==
    /\ path # Clean(dir)
    /\ Dir(path) = Clean(dir)
    /\ Base(path) \notin {Dot, DotDot, <<Sep>>}

\* C10: the path UploadFile opens for writing is a direct child of the
\* Outbound directory, whatever the Filename.
C10_WritesInsideOutbound ==
    \A p \in Callers :
        (call[p].op = "Upload" /\ call[p].path # <<>>)
            => IsDirectChild(call[p].path, Outbound)

\* C11: an UploadFile that opened the remote file returns with the handle
\* closed, whichever step failed, and the error it returns is the first one.
C11_HandleClosedOnReturn ==
    \A p \in Callers :
        (call[p].op = "Upload" /\ pc[p] = "ret" /\ call[p].fd # "none")
            => call[p].fd = "closed"

\* A Get*Files that acquired the session is returning.
ReadDone(p) == call[p].op = "Read" /\ pc[p] = "ret" /\ call[p].held # 0

\* C12: a Get*Files whose read of a file ended with the 'internal
\* inconsistency' error of the transport returns no error and has the file in
\* its result (checked under SpecRead).
C12_InconsistencyTolerated ==
    \A p \in Callers :
        (ReadDone(p) /\ call[p].at = "inconsistent")
            => /\ call[p].res = "ok"
               /\ \E i \in 1..Len(call[p].out) :
                     call[p].out[i].name = call[p].infos[call[p].idx]

\* C13: a Ping, Delete, UploadFile or Get*Files that returns has written the
\* gauge: 1 when it returns no error, 0 when it returns one.
C13_GaugeIsLastOutcome ==
    \A p \in Callers :
        (call[p].op \in LockedOps /\ pc[p] = "ret")
            => gauge = Record(call[p].res = "ok")

Range(f) == { f[i] : i \in DOMAIN f }

\* The sftpConnect calls the state holds, each with its configuration.
ConnectsOf ==
    { x \in { <<cfg, ctorConnect>> } \cup
             { << IF call[p].op = "Construct" THEN call[p].arg ELSE cfg,
                  call[p].connect >> : p \in Callers } : x[2].res # "none" }

\* C14: an sftpConnect with neither or both of password and private key set
\* returns an error without a dial; with exactly one set it offers that
\* method alone (checked under SpecConnect).
C14_ExactlyOneCredential ==
    \A x \in ConnectsOf :
        LET c == x[1]
            r == x[2]
        IN  /\ c.auth \in {"none", "both"} => r.res \in Refused /\ r.attempts = 0
            /\ (c.auth = "password" /\ r.res \notin Refused) => r.offered = "password"
            /\ (c.auth = "key" /\ r.res \notin Refused) => r.offered = "publickey"

\* C15: the warning of the insecure default is logged at most once in the
\* process and is logged when an sftpConnect without host key reaches its
\* dial loop; an sftpConnect with a host key logs nothing and pins the key it
\* parsed (checked under SpecConnect).
C15_WarnOnce ==
    /\ warned <= 1
    /\ \A x \in ConnectsOf :
         LET c == x[1]
             r == x[2]
         IN  /\ (c.hostKey = "none" /\ r.res \notin Refused) => warned = 1
             /\ r.attempts > 0 => r.callback = (IF c.hostKey = "none" THEN "insecure"
                                                 ELSE "fixed")
             /\ c.hostKey # "none" => ~r.logged /\ r.callback # "insecure"
             /\ c.hostKey = "bad" => r.res = "hostkey" /\ r.attempts = 0
    /\ (warned = 1) = onceDone

\* Two agents without host key have dialled: the construction of the one
\* logged the warning, the sftpConnect of the other did not.
C15_Witness ==
    /\ warned = 1
    /\ cfg.hostKey = "none" /\ ctorConnect.attempts = 3 /\ ctorConnect.logged
    /\ \E p \in Callers :
         /\ call[p].op = "Construct" /\ call[p].arg.hostKey = "none"
         /\ call[p].connect.attempts > 0 /\ ~call[p].connect.logged

\* A Get*Files returns the files its caller got from the call just before,
\* which read the same directory.
C16_SameResult ==
    \A p \in Callers :
        (ReadDone(p) /\ call[p].res = "ok" /\ call[p].last.dir = call[p].arg)
            => Range(call[p].out) = Range(call[p].last.out)

\* C16: two consecutive Get*Files of one directory return the same filenames
\* with the same bytes, and no step of a call changes a remote directory
\* (checked under SpecRead).
C16_ReadsRepeatable == []C16_SameResult /\ [][listing' = listing]_vars

\* The second of two Get*Files of one directory returns two files.
C16_Witness ==
    \E p \in Callers :
        /\ ReadDone(p) /\ call[p].res = "ok" /\ call[p].last.dir = call[p].arg
        /\ Len(call[p].out) = 2 /\ call[p].out[1].data # call[p].out[2].data

\* The regular files of a directory, one level deep, as Get*Files returns them.
RECURSIVE RegularFiles(_)
RegularFiles(l) ==
    IF l = << >> THEN << >>
    ELSE IF Head(l).isDir THEN RegularFiles(Tail(l))
    ELSE << [name |-> Head(l).name, data |-> Head(l).data] >> \o RegularFiles(Tail(l))

\* C17: a Get*Files that returns no error returns exactly the regular files
\* of the directory, no subdirectory and nothing from inside one; when it
\* returns an error of a read, the entry read is not a subdirectory
\* (checked under SpecRead).
C17_RegularFilesOnly ==
    \A p \in Callers :
        LET c == call[p] IN
        ReadDone(p) =>
            /\ c.res = "ok" => c.out = RegularFiles(listing[c.arg])
            /\ c.at \in {"inconsistent", "error"} =>
                   ~Lookup(listing[c.arg], c.infos[c.idx]).isDir

\* A Get*Files of a directory holding a subdirectory and a file returns the file.
C17_Witness ==
    \E p \in Callers :
        /\ ReadDone(p) /\ call[p].res = "ok"
        /\ \E i \in 1..Len(listing[call[p].arg]) : listing[call[p].arg][i].isDir
        /\ Len(call[p].out) = 1 /\ call[p].out[1].name = "f"

\* An UploadFile is returning no error.
UploadDone(p) == call[p].op = "Upload" /\ pc[p] = "ret" /\ call[p].res = "ok"

\* A Delete is returning no error, and the call just before it uploaded a file.
DeleteAfterUpload(p) ==
    /\ call[p].op = "Delete" /\ pc[p] = "ret" /\ call[p].res = "ok"
    /\ call[p].uploaded # NoUpload

\* C18 as stated: after an UploadFile(f) without error the remote file
\* Outbound/<f.Filename> holds the bytes of f.Contents, and after a following
\* Delete(f.Filename) without error the uploaded file is gone.
C18_RoundTripByFilename ==
    \A p \in Callers :
        LET c == call[p]
            q == Clean(Join(Outbound, c.arg))
        IN  /\ UploadDone(p) => q \in files /\ content[q] = c.data
            /\ (DeleteAfterUpload(p) /\ c.arg = c.uploaded.name)
                   => c.uploaded.path \notin files

\* C18 as amended: after an UploadFile(f) without error the remote file it
\* wrote, Outbound joined with the base name of f.Filename, holds the bytes of
\* f.Contents, and after a following Delete of that path without error the
\* file is gone (checked under SpecXfer).
C18_RoundTrip ==
    \A p \in Callers :
        LET c == call[p] IN
        /\ UploadDone(p) =>
              /\ c.path = PathToWrite(Outbound, c.arg)
              /\ c.path \in files /\ content[c.path] = c.data
        /\ (DeleteAfterUpload(p) /\ c.arg = c.uploaded.path)
               => c.uploaded.path \notin files

\* A file uploaded over an existing one of other bytes has been deleted again.
C18_Witness ==
    \E p \in Callers :
        /\ DeleteAfterUpload(p) /\ call[p].arg = call[p].uploaded.path
        /\ call[p].removed /\ call[p].uploaded.name = <<".", ".", "/", "a">>

\* C19: Close returns no error whatever the state of the agent (nil, never
\* connected, closed already), and when it returns the client and the
\* transport the agent holds are closed.
C19_CloseIsSafe ==
    \A p \in Callers :
        (call[p].op = "Close" /\ pc[p] = "ret") =>
            /\ call[p].res = "ok"
            /\ client # 0 => client \notin clientOpen
            /\ conn # 0 => conn \notin connOpen
            /\ NilAgent => client = 0 /\ conn = 0 /\ connOpen = {} /\ clientOpen = {}

\* A Close of an agent whose transport was closed already has returned.
C19_Witness ==
    \E p \in Callers :
        /\ call[p].op = "Close" /\ pc[p] = "ret" /\ call[p].res = "ok"
        /\ call[p].stat = "error" /\ client # 0 /\ conn # 0

\* populateHashes has run on a file whose header failed validation and which
\* holds at least one batch.
HashedWithoutHeader == hashed /\ ~achFile.headerValid /\ achFile.batches # << >>

Scanned == { i \in 1..Len(scan.staged) : i < scan.idx /\ ~scan.staged[i].isDir }

\* processFile returned the error of the parser for file i.
ParseFailed(i) == \E k \in 1..Len(scan.errs) : scan.errs[k] = [at |-> i, cause |-> "parse"]

\* The audit save of file i failed.
AuditFailed(i) == \E k \in 1..Len(scan.errs) : scan.errs[k] = [at |-> i, cause |-> "audit"]

\* Processor k was invoked with the parsed structure of file i, which carries
\* a non-empty identity.
Invoked(k, i) ==
    \E h \in 1..Len(scan.handled) :
        /\ scan.handled[h].proc = k /\ scan.handled[h].at = i
        /\ scan.handled[h].id # NoID
        /\ scan.handled[h].file = WithHashes(Parsed(scan.staged[i]))

\* The scan of processDir completes: once the directory was listed, processDir
\* returns only after the last entry, with an error only if the list holds one.
ScanCompletes ==
    (scan.stage = "done" /\ scan.idx > 0) =>
        /\ scan.idx = Len(scan.staged) + 1
        /\ scan.res = "err" <=> scan.errs # << >>

Occurrences(s, sub) ==
    { j \in 1..(Len(s) - Len(sub) + 1) : SubSeq(s, j, j + Len(sub) - 1) = sub }

\* strings.Contains(s, sub)
Contains(s, sub) == Occurrences(s, sub) # {}

\* "Password=" followed by the first character of pw, n asterisks and the
\* last character of pw.
Shown(pw, n) ==
    <<"P", "a", "s", "s", "w", "o", "r", "d", "=">>
        \o << pw[1] >> \o Stars(n) \o << pw[Len(pw)] >>

C23_MkdirOnlyWhenAbsent ==
    \A p \in Callers :
        (call[p].op = "Upload" /\ call[p].mkdir) =>
            ~cfg.skipMkdir /\ call[p].stat = "notfound"

\* The goroutine that holds the mutex is inside the method that locked it.
HolderRuns == mu # 0 => pc[mu] \in SessionPcs \cup {"ret"}

\* Some goroutine waits for the mutex, and each of them can only wait.
AllBlocked ==
    /\ \E p \in Callers : pc[p] = "lock"
    /\ \A p \in Callers : pc[p] \in {"idle", "done", "lock"}
    /\ mu # 0

\* A remote step does not return: the host answers the dial of a caller no
\* more (it is at the bounds of the sessions and the retries).
RemoteSilent == \E q \in Callers : pc[q] = "dial" /\ nSessions = MaxSessions

\* No goroutine is inside a call or waits for the mutex.
AllCompleted == \A p \in Callers : pc[p] \in {"idle", "done"}

\* C24: the mutex is released on every return path of Ping, Delete,
\* UploadFile and Get*Files: its holder is always inside its call, no state
\* has the callers blocked on it, and under fair scheduling every call
\* acquires the mutex and completes, so that in the end none is left waiting
\* or running, as long as the remote steps return.
C24_LockReleased ==
    /\ [](HolderRuns /\ ~AllBlocked)
    /\ <>[](AllCompleted \/ RemoteSilent)

\* A call that failed has returned and released the mutex while another
\* goroutine waits for it.
C24_Witness ==
    \E p, q \in Callers :
        /\ p # q /\ pc[p] = "done" /\ pc[q] = "lock" /\ mu = 0
        /\ call[p].fclosed = 0 /\ gauge = 0

\* The attempts sendEmail may make: cfg.MaxRetries when it is > 0, else 3.
AllowedAttempts ==
    IF mail.cfgMaxRetries > 0 THEN mail.cfgMaxRetries ELSE DefaultMailRetries

\* C25: sendEmail terminates after at most maxRetries attempts of DialAndSend
\* (cfg.MaxRetries when > 0, else 3): it tries again only after an
\* "i/o timeout", returns nil at the first success, the error at the first
\* failure that is no timeout, and the last timeout when every attempt timed
\* out.
C25_BoundedRetries ==
    LET n == Len(mail.sent)
    IN  /\ n <= AllowedAttempts
        /\ \A i \in 1..(n - 1) : IsTimeout(mail.sent[i])
        /\ mail.stage \in {"called", "loop"} => ENABLED NextMail
        /\ mail.stage = "done" =>
              /\ n >= 1
              /\ mail.res = mail.sent[n]
              /\ IsTimeout(mail.sent[n]) => n = AllowedAttempts

\* sendEmail of a configuration without MaxRetries has returned the timeout
\* of its third attempt.
C25_Witness ==
    /\ mail.stage = "done" /\ mail.cfgMaxRetries = 0
    /\ Len(mail.sent) = 3 /\ IsTimeout(mail.res)
====
